---- MODULE Spec2Model ----
(***************************************************************************)
(* Model of quest_steamvr_fbt_tool.py: the module-level start-up, the      *)
(* worker thread run_tracker_server (device resolution, calibration, the   *)
(* streaming loop) and the tray shell's exit menu.                         *)
(*                                                                         *)
(* Numbers: matrix entries and lengths are integers counted in fixed-point *)
(* steps of 1/Unit, so that the value 1.0 is Unit.  asin and atan are not  *)
(* evaluated; an angle is the term that names it (function and reduced     *)
(* argument), with asin(0) = atan(0) = 0 represented by the term Zero.     *)
(***************************************************************************)
EXTENDS Integers, Sequences, FiniteSets, TLC

\* ------------------------------------------------------------------ bounds
NumSlots == 2      \* runtime device slots that can hold a serial
MaxTicks == 2      \* streaming ticks explored
MaxReassign == 1   \* slot reassignments by the runtime during streaming
Unit == 2          \* fixed-point steps per 1.0

\* ------------------------------------------------------- program constants
DeviceCountLimit == 9    \* assert 0 < len(device_indexes) < 9

VARIABLES
    slots,            \* runtime: serial of each device slot ("" = empty)
    cfg,              \* arguments handed to run_tracker_server
    thread_terminate, \* the global flag
    mainpc,           \* position of the main (shell) thread
    wpc,              \* position of the worker thread
    device_indexes,   \* local of run_tracker_server
    y_delta,          \* local of run_tracker_server
    poses,            \* local of run_tracker_server: last bulk read
    ch,               \* loop variable i of the for loop (0-based)
    cur,              \* pos_* and rot_* of the current channel
    tickLog,          \* runtime reads and sends of the current tick
    ticks,            \* bulk reads done by the streaming loop
    polls,            \* reads of the flag done by the streaming loop
    sentTotal,        \* messages handed to the UDP client so far
    calibReads,       \* bulk reads done by calibration
    calibPoses,       \* what the calibration read returned
    resolveLog,       \* calls of get_device_index: serial, ignore, result
    startSlots,       \* the slot table as it was during start-up
    startErr,         \* which start-up step raised, "none" if none
    failed,           \* an exception was raised inside a streaming tick
    reported,         \* error dialogs shown by error_handling
    exitBy,           \* contexts that have called wx.Exit()
    flagWriters,      \* contexts that have assigned thread_terminate
    pollsAtFlag,      \* polls when the flag last became true
    reassigns,        \* slot reassignments done
    conf,             \* values read from qsft_config.ini over the defaults
    argv,             \* occurrences of each option on the command line
    parsed            \* the tuple parse_arg_and_config returned, <<>> before

vars == <<slots, cfg, thread_terminate, mainpc, wpc, device_indexes, y_delta,
          poses, ch, cur, tickLog, ticks, polls, sentTotal, calibReads,
          calibPoses, resolveLog, startSlots, startErr, failed, reported,
          exitBy, flagWriters, pollsAtFlag, reassigns, conf, argv, parsed>>

\* ------------------------------------------------------------ input sets
NoSerial == "<None>"                 \* standard_device is None
Serials == {"A", "B"}                \* serials of real devices
\* a serial belongs to one device, so no two slots hold the same one
SlotTables == {t \in [1..NumSlots -> Serials \cup {""}] :
                  \A a, b \in 1..NumSlots : (a # b /\ t[a] = t[b]) => t[a] = ""}
CfgSerials == Serials \cup {""}
ShortLists == {<<>>, <<"A">>, <<"">>, <<"A", "B">>, <<"B", "A">>, <<"A", "A">>}
LongLists == {[i \in 1..n |-> "A"] : n \in {DeviceCountLimit - 1, DeviceCountLimit}}
Deltas == {1}
Configs ==
    [use_device : ShortLists, ignore_not_found_device : BOOLEAN,
     standard_device : {"A", NoSerial}, delta : Deltas]
    \cup [use_device : LongLists, ignore_not_found_device : {FALSE},
          standard_device : {NoSerial}, delta : Deltas]

\* lines 150-151: the defaults of the Connection section
DefaultAddr == "127.0.0.1"
DefaultPort == 9000

\* lines 165-170: the values of the file, as the getters of conf return them
FileConfs ==
    [addr : {DefaultAddr}, port : {DefaultPort},
     use_device : {<<>>, <<"A">>, <<"A", "B">>},
     ignore_not_found_device : BOOLEAN,
     standard_device : {NoSerial, "A"}, delta : Deltas]

\* the file whose Devices section holds c and whose Connection section is
\* left to the defaults
FileOf(c) ==
    [addr |-> DefaultAddr, port |-> DefaultPort, use_device |-> c.use_device,
     ignore_not_found_device |-> c.ignore_not_found_device,
     standard_device |-> c.standard_device, delta |-> c.delta]

\* the Devices section of file f
FileConfig(f) ==
    [use_device |-> f.use_device,
     ignore_not_found_device |-> f.ignore_not_found_device,
     standard_device |-> f.standard_device, delta |-> f.delta]

\* sys.argv: for each option the values of its occurrences, in order, after
\* the type conversion of argparse; for the two flags, whether it occurs
NoArgv ==
    [addr |-> <<>>, port |-> <<>>, use_device |-> <<>>,
     ignore_not_found_device |-> FALSE, standard_device |-> <<>>,
     delta |-> <<>>]
Argvs ==
    [addr : {<<>>, <<"10.0.0.2">>}, port : {<<>>, <<9001>>},
     use_device : {<<>>, <<"B">>, <<"B", "A">>},
     ignore_not_found_device : BOOLEAN,
     standard_device : {<<>>, <<"B">>}, delta : {<<>>, <<2>>}]

\* ------------------------------------------------------------ arithmetic
Abs(x) == IF x < 0 THEN -x ELSE x

RECURSIVE GCD(_, _)
GCD(a, b) == IF b = 0 THEN a ELSE GCD(b, a % b)

\* the quotient a / b (b # 0) as the reduced fraction it equals
Quot(a, b) ==
    LET g == GCD(Abs(a), Abs(b))
        s == IF b < 0 THEN -1 ELSE 1
    IN  <<(s * a) \div g, (s * b) \div g>>

Zero == [fn |-> "zero", num |-> 0, den |-> 1]

\* math.asin on a value of x/Unit, for -Unit <= x <= Unit
asin(x) == IF x = 0 THEN Zero
           ELSE [fn |-> "asin", num |-> Quot(x, Unit)[1], den |-> Quot(x, Unit)[2]]

\* math.atan on a quotient
atan(q) == IF q[1] = 0 THEN Zero
           ELSE [fn |-> "atan", num |-> q[1], den |-> q[2]]

\* ---------------------------------------------------------------- poses
\* matrix[r][c] of the source, rows and columns counted from 0
M(matrix, r, c) == matrix[r + 1][c + 1]

PoseList == <<
    \* turned about X only (m[0][2] = 0), at (1, 2, 3)
    << <<Unit, 0, 0, 1>>, <<0, 1, -1, 2>>, <<0, 1, 1, 3>> >>,
    \* m[0][2] = 1/Unit, every divisor non-zero, at (2, 1, -1)
    << <<1, -1, 1, 2>>, <<1, 1, 1, 1>>, <<-1, 1, 1, -1>> >>,
    \* m[0][2] = -1/Unit and m[2][2] = 0, at (3, 3, 1)
    << <<1, 1, -1, 3>>, <<1, 1, 1, 3>>, <<1, 1, 0, 1>> >>,
    \* m[0][2] outside [-1, 1], at (0, 1, 2)
    << <<1, 0, Unit + 1, 0>>, <<0, 1, 0, 1>>, <<0, 0, 1, 2>> >> >>

\* poses at (1, 2, 3) whose rotation entries m[0][0], m[0][1], m[1][1],
\* m[1][2], m[2][1], m[2][2] are -1/Unit, 0 or 1/Unit each and whose m[0][2]
\* is any step of [-1, 1]
EulerMatrices ==
    {<< <<a, b, c, 1>>, <<0, d, e, 2>>, <<0, f, g, 3>> >> :
        a \in -1..1, b \in -1..1, c \in -Unit..Unit,
        d \in -1..1, e \in -1..1, f \in -1..1, g \in -1..1}

\* the pose arrays getLastPoses can return: array f holds a different pose
\* in each slot, and every pose of PoseList shows up in every slot
PoseArrays == {[j \in 0..NumSlots |-> PoseList[((f + j) % Len(PoseList)) + 1]]
               : f \in 0..(Len(PoseList) - 1)}

NoPoses == [j \in 0..NumSlots |-> PoseList[1]]
NoCur == [ok |-> FALSE, pos |-> <<0, 0, 0>>, rot_x |-> Zero, rot_y |-> Zero, rot_z |-> Zero]

\* ----------------------------------------------------------- pure functions
get_position(matrix) == <<M(matrix, 0, 3), M(matrix, 1, 3), M(matrix, 2, 3)>>

\* get_euler_angle: ok = FALSE stands for the exception asin or a division
\* by zero raises
EulerFail == [ok |-> FALSE, rot_x |-> Zero, rot_y |-> Zero, rot_z |-> Zero]

\* get_euler_angle with the degenerate branch taken for every rot_y of
\* magnitude up to asin(1/Unit), not for rot_y = 0 only
get_euler_angle_tolerant(matrix) ==
    IF Abs(M(matrix, 0, 2)) > Unit THEN EulerFail
    ELSE LET rot_y == asin(M(matrix, 0, 2)) IN
         IF Abs(M(matrix, 0, 2)) > 1
         THEN IF M(matrix, 2, 2) = 0 \/ M(matrix, 0, 0) = 0 THEN EulerFail
              ELSE [ok |-> TRUE,
                    rot_x |-> atan(Quot(-M(matrix, 1, 2), M(matrix, 2, 2))),
                    rot_y |-> rot_y,
                    rot_z |-> atan(Quot(-M(matrix, 0, 1), M(matrix, 0, 0)))]
         ELSE IF M(matrix, 1, 1) = 0 THEN EulerFail
              ELSE [ok |-> TRUE,
                    rot_x |-> atan(Quot(M(matrix, 2, 1), M(matrix, 1, 1))),
                    rot_y |-> rot_y,
                    rot_z |-> Zero]

get_euler_angle(matrix) ==
    IF Abs(M(matrix, 0, 2)) > Unit THEN EulerFail
    ELSE LET rot_y == asin(M(matrix, 0, 2)) IN
         IF rot_y # Zero
         THEN IF M(matrix, 2, 2) = 0 \/ M(matrix, 0, 0) = 0 THEN EulerFail
              ELSE [ok |-> TRUE,
                    rot_x |-> atan(Quot(-M(matrix, 1, 2), M(matrix, 2, 2))),
                    rot_y |-> rot_y,
                    rot_z |-> atan(Quot(-M(matrix, 0, 1), M(matrix, 0, 0)))]
         ELSE IF M(matrix, 1, 1) = 0 THEN EulerFail
              ELSE [ok |-> TRUE,
                    rot_x |-> atan(Quot(M(matrix, 2, 1), M(matrix, 1, 1))),
                    rot_y |-> rot_y,
                    rot_z |-> Zero]

\* getStringTrackedDeviceProperty(i, Prop_SerialNumber_String)
SerialAt(table, i) == IF i < NumSlots THEN table[i + 1] ELSE ""

Found(i) == [kind |-> "index", i |-> i]
None == [kind |-> "none", i |-> 0]
Raised == [kind |-> "raise", i |-> 0]

RECURSIVE ScanFrom(_, _, _, _)
ScanFrom(table, device_name, ignore, i) ==
    LET serial_num == SerialAt(table, i) IN
    IF serial_num = device_name THEN Found(i)
    ELSE IF serial_num = "" THEN (IF ignore THEN None ELSE Raised)
    ELSE ScanFrom(table, device_name, ignore, i + 1)

\* get_device_index with the scan started at slot 1
get_device_index_from1(table, device_name, ignore) == ScanFrom(table, device_name, ignore, 1)

get_device_index(table, device_name, ignore) == ScanFrom(table, device_name, ignore, 0)

\* lines 81-84: the calls of get_device_index made for use_device, in order,
\* up to and including the first one that raises
RECURSIVE ResolveList(_, _, _, _, _)
ResolveList(table, use_device, ignore, k, acc) ==
    IF k > Len(use_device) THEN acc
    ELSE LET r == get_device_index(table, use_device[k], ignore)
             e == [serial |-> use_device[k], ignore |-> ignore, result |-> r]
         IN  IF r = Raised THEN Append(acc, e)
             ELSE ResolveList(table, use_device, ignore, k + 1, Append(acc, e))

\* Appended with every index put in front of the list
RECURSIVE Appended_reversed(_, _)
Appended_reversed(calls, k) ==
    IF k = 0 THEN <<>>
    ELSE IF calls[k].result.kind = "index"
         THEN <<calls[k].result.i>> \o Appended_reversed(calls, k - 1)
         ELSE Appended_reversed(calls, k - 1)

\* device_indexes.append(i) for every i that is not None
RECURSIVE Appended(_, _)
Appended(calls, k) ==
    IF k = 0 THEN <<>>
    ELSE IF calls[k].result.kind = "index"
         THEN Append(Appended(calls, k - 1), calls[k].result.i)
         ELSE Appended(calls, k - 1)

\* argparse, action "store": the last occurrence, the default with none
ArgStore(default, given) ==
    IF given = <<>> THEN default ELSE given[Len(given)]

\* argparse, action "append": every occurrence is appended to a copy of the
\* default
ArgAppend(default, given) == default \o given

\* argparse, action "store_true"
ArgStoreTrue(given) == given

\* lines 145-194: the tuple returned for file values f and command line a
parse_arg_and_config(f, a) ==
    LET args_addr == ArgStore(f.addr, a.addr)
        args_port == ArgStore(f.port, a.port)
        args_use_device == ArgAppend(f.use_device, a.use_device)
        args_ignore == ArgStoreTrue(a.ignore_not_found_device)
        args_standard_device == ArgStore(f.standard_device, a.standard_device)
        args_delta == ArgStore(f.delta, a.delta)
    IN  <<args_addr, args_port, args_use_device,
          args_ignore \/ f.ignore_not_found_device,
          args_standard_device, args_delta>>

\* line 234: the tuple bound to the parameters of run_tracker_server
ThreadArgs(t) ==
    [use_device |-> t[3], ignore_not_found_device |-> t[4],
     standard_device |-> t[5], delta |-> t[6]]

\* ------------------------------------------------------------------ state
LoopStates == {"check", "read", "xform", "pos", "rotx", "roty", "rotz"}
Terminated == {"except", "exiting", "return", "done"}

\* the module loaded up to line 28, whatever the inputs
Loaded ==
    /\ thread_terminate = FALSE
    /\ mainpc = "load"
    /\ wpc = "idle"
    /\ device_indexes = <<>>
    /\ y_delta = 0
    /\ poses = NoPoses
    /\ ch = 0
    /\ cur = NoCur
    /\ tickLog = <<>>
    /\ ticks = 0
    /\ polls = 0
    /\ sentTotal = 0
    /\ calibReads = 0
    /\ calibPoses = NoPoses
    /\ resolveLog = <<>>
    /\ startSlots = slots
    /\ startErr = "none"
    /\ failed = FALSE
    /\ reported = 0
    /\ exitBy = {}
    /\ flagWriters = {}
    /\ pollsAtFlag = 0
    /\ reassigns = 0
    /\ parsed = <<>>

\* the configuration comes from the file, the command line is empty
Init ==
    /\ slots \in SlotTables
    /\ cfg \in Configs
    /\ conf = FileOf(cfg)
    /\ argv = NoArgv
    /\ Loaded

workerLocals == <<device_indexes, y_delta, poses, ch, cur>>
streamHist == <<tickLog, ticks, polls, sentTotal>>
startHist == <<calibReads, calibPoses, resolveLog, startSlots, startErr>>
shellVars == <<thread_terminate, mainpc, flagWriters, pollsAtFlag>>
exitVars == <<reported, exitBy>>
envVars == <<slots, cfg, reassigns, conf, argv, parsed>>

\* the bookkeeping of an assignment thread_terminate = True by context who
SetFlag(who) ==
    /\ thread_terminate' = TRUE
    /\ flagWriters' = flagWriters \cup {who}
    /\ pollsAtFlag' = IF thread_terminate THEN pollsAtFlag ELSE polls

\* ------------------------------------------------------------ main thread
\* lines 223-226: openvr.init; on failure error_handling() runs with no
\* wx.App and no worker, and whether the interpreter gets past it and past
\* line 229 is up to wx and openvr (survives)
LoadRuntime ==
    /\ mainpc = "load"
    /\ \/ /\ mainpc' = "main"
          /\ UNCHANGED <<thread_terminate, flagWriters, pollsAtFlag, exitVars>>
       \/ /\ reported' = reported + 1
          /\ SetFlag("load")
          /\ exitBy' = exitBy \cup {"load"}
          /\ \E survives \in BOOLEAN : mainpc' = IF survives THEN "main" ELSE "dead"
    /\ UNCHANGED <<wpc, workerLocals, streamHist, startHist, failed, envVars>>

\* lines 228-240: reset the flag, parse the configuration, build and start
\* the worker thread on it
MainStart ==
    /\ mainpc = "main"
    /\ thread_terminate' = FALSE
    /\ flagWriters' = flagWriters \cup {"main"}
    /\ parsed' = parse_arg_and_config(conf, argv)
    /\ cfg' = ThreadArgs(parsed')
    /\ mainpc' = "gui"
    /\ wpc' = "startup"
    /\ UNCHANGED <<pollsAtFlag, workerLocals, streamHist, startHist, failed,
                   exitVars, slots, reassigns, conf, argv>>

\* lines 212-217: the Exit menu entry, up to the join
ClickExit ==
    /\ mainpc = "gui"
    /\ SetFlag("shell")
    /\ mainpc' = "joining"
    /\ UNCHANGED <<wpc, workerLocals, streamHist, startHist, failed, exitVars,
                   envVars>>

\* JoinReturn without the thread.join() of line 218
JoinReturn_noJoin ==
    /\ mainpc = "joining"
    /\ exitBy' = exitBy \cup {"shell"}
    /\ mainpc' = "exited"
    /\ UNCHANGED <<thread_terminate, flagWriters, pollsAtFlag, reported, wpc,
                   workerLocals, streamHist, startHist, failed, envVars>>

\* lines 218-221: thread.join() returns, then Destroy and wx.Exit()
JoinReturn ==
    /\ mainpc = "joining"
    /\ wpc = "done"
    /\ exitBy' = exitBy \cup {"shell"}
    /\ mainpc' = "exited"
    /\ UNCHANGED <<thread_terminate, flagWriters, pollsAtFlag, reported, wpc,
                   workerLocals, streamHist, startHist, failed, envVars>>

\* line 243: app.MainLoop() ends once the worker has called wx.Exit()
MainLoopExit ==
    /\ mainpc = "gui"
    /\ "worker" \in exitBy
    /\ mainpc' = "exited"
    /\ UNCHANGED <<thread_terminate, flagWriters, pollsAtFlag, exitVars, wpc,
                   workerLocals, streamHist, startHist, failed, envVars>>

\* ---------------------------------------------------------------- runtime
\* the runtime moves a device to a neighbouring slot while the loop streams
RuntimeReassign ==
    /\ wpc \in LoopStates
    /\ reassigns < MaxReassign
    /\ \E a, b \in 1..NumSlots :
          /\ b = a + 1
          /\ slots[a] # slots[b]
          /\ slots' = [slots EXCEPT ![a] = slots[b], ![b] = slots[a]]
    /\ reassigns' = reassigns + 1
    /\ UNCHANGED <<cfg, conf, argv, parsed, shellVars, exitVars, wpc,
                   workerLocals, streamHist, startHist, failed>>

\* ----------------------------------------------------------- worker thread
\* the assert with <= in place of the second <
device_count_ok_le(n) == 0 < n /\ n <= DeviceCountLimit

\* line 85: assert 0 < len(device_indexes) < 9
device_count_ok(n) == 0 < n /\ n < DeviceCountLimit

\* line 95 without the negation of the reference height
reference_offset_noNegate(pose, delta) == M(pose, 1, 3) + delta

\* line 95: y_delta = -1 * pose[1][3] + delta
reference_offset(pose, delta) == -1 * M(pose, 1, 3) + delta

\* lines 77-88: the UDP client, the resolution of use_device, the assert
Startup ==
    /\ wpc = "startup"
    /\ startSlots' = slots
    /\ \E clientOk \in BOOLEAN :
          IF ~clientOk
          THEN /\ startErr' = "client"
               /\ wpc' = "except"
               /\ UNCHANGED <<device_indexes, resolveLog>>
          ELSE LET calls == ResolveList(slots, cfg.use_device,
                                        cfg.ignore_not_found_device, 1, <<>>)
                   found == Appended(calls, Len(calls))
                   raised == calls # <<>> /\ calls[Len(calls)].result = Raised
               IN  /\ resolveLog' = calls
                   /\ device_indexes' = found
                   /\ IF raised
                      THEN startErr' = "notfound" /\ wpc' = "except"
                      ELSE IF ~device_count_ok(Len(found))
                      THEN startErr' = "count" /\ wpc' = "except"
                      ELSE startErr' = "none" /\ wpc' = "calib"
    /\ UNCHANGED <<y_delta, poses, ch, cur, streamHist, calibReads, calibPoses,
                   failed, shellVars, exitVars, envVars>>

\* Calibrate with the reference serial resolved under the ignore flag of the
\* configuration, a missing reference standing for slot 0
Calibrate_ignoreFlag ==
    /\ wpc = "calib"
    /\ IF cfg.standard_device = NoSerial
       THEN /\ y_delta' = 0
            /\ wpc' = "check"
            /\ UNCHANGED <<poses, calibReads, calibPoses, resolveLog, startErr>>
       ELSE LET r == get_device_index(slots, cfg.standard_device,
                                      cfg.ignore_not_found_device) IN
            /\ resolveLog' = Append(resolveLog, [serial |-> cfg.standard_device,
                                                 ignore |-> cfg.ignore_not_found_device,
                                                 result |-> r])
            /\ IF r = Raised
               THEN /\ startErr' = "reference"
                    /\ wpc' = "except"
                    /\ UNCHANGED <<y_delta, poses, calibReads, calibPoses>>
               ELSE /\ calibReads' = calibReads + 1
                    /\ \/ /\ startErr' = "calibread"
                          /\ wpc' = "except"
                          /\ UNCHANGED <<y_delta, poses, calibPoses>>
                       \/ \E arr \in PoseArrays :
                             /\ poses' = arr
                             /\ calibPoses' = arr
                             /\ y_delta' = reference_offset(arr[r.i], cfg.delta)
                             /\ wpc' = "check"
                             /\ UNCHANGED startErr
    /\ UNCHANGED <<device_indexes, ch, cur, streamHist, startSlots, failed,
                   shellVars, exitVars, envVars>>

\* lines 90-100: the calibration offset
Calibrate ==
    /\ wpc = "calib"
    /\ IF cfg.standard_device = NoSerial
       THEN /\ y_delta' = 0
            /\ wpc' = "check"
            /\ UNCHANGED <<poses, calibReads, calibPoses, resolveLog, startErr>>
       ELSE LET r == get_device_index(slots, cfg.standard_device, FALSE) IN
            /\ resolveLog' = Append(resolveLog, [serial |-> cfg.standard_device,
                                                 ignore |-> FALSE, result |-> r])
            /\ IF r = Raised
               THEN /\ startErr' = "reference"
                    /\ wpc' = "except"
                    /\ UNCHANGED <<y_delta, poses, calibReads, calibPoses>>
               ELSE /\ calibReads' = calibReads + 1
                    /\ \/ /\ startErr' = "calibread"
                          /\ wpc' = "except"
                          /\ UNCHANGED <<y_delta, poses, calibPoses>>
                       \/ \E arr \in PoseArrays :
                             /\ poses' = arr
                             /\ calibPoses' = arr
                             /\ y_delta' = reference_offset(arr[r.i], cfg.delta)
                             /\ wpc' = "check"
                             /\ UNCHANGED startErr
    /\ UNCHANGED <<device_indexes, ch, cur, streamHist, startSlots, failed,
                   shellVars, exitVars, envVars>>

\* CheckFlag with the return of line 106 missing
CheckFlag_noReturn ==
    /\ wpc = "check"
    /\ polls' = polls + 1
    /\ ticks < MaxTicks
    /\ wpc' = "read"
    /\ tickLog' = <<>>
    /\ exitBy' = IF thread_terminate THEN exitBy \cup {"worker"} ELSE exitBy
    /\ UNCHANGED <<workerLocals, ticks, sentTotal, startHist, failed, reported,
                   shellVars, envVars>>

\* CheckFlag with the flag looked at before the first tick only
CheckFlag_once ==
    /\ wpc = "check"
    /\ polls' = polls + 1
    /\ IF thread_terminate /\ ticks = 0
       THEN /\ exitBy' = exitBy \cup {"worker"}
            /\ wpc' = "return"
            /\ UNCHANGED tickLog
       ELSE /\ ticks < MaxTicks
            /\ wpc' = "read"
            /\ tickLog' = <<>>
            /\ UNCHANGED exitBy
    /\ UNCHANGED <<workerLocals, ticks, sentTotal, startHist, failed, reported,
                   shellVars, envVars>>

\* lines 103-106: the poll of the flag at the head of a tick
CheckFlag ==
    /\ wpc = "check"
    /\ polls' = polls + 1
    /\ IF thread_terminate
       THEN /\ exitBy' = exitBy \cup {"worker"}
            /\ wpc' = "return"
            /\ UNCHANGED tickLog
       ELSE /\ ticks < MaxTicks
            /\ wpc' = "read"
            /\ tickLog' = <<>>
            /\ UNCHANGED exitBy
    /\ UNCHANGED <<workerLocals, ticks, sentTotal, startHist, failed, reported,
                   shellVars, envVars>>

\* what a tick records of a call into the runtime or the UDP client
ReadEvent == [op |-> "read", chan |-> 0, leaf |-> "", args |-> <<>>]
SendEvent(n, leaf, args) == [op |-> "send", chan |-> n, leaf |-> leaf, args |-> args]

\* the exception swallowed and the loop carried on with the next tick
Raise_swallow ==
    /\ failed' = TRUE
    /\ wpc' = "check"

\* an exception inside the try of lines 107-140
Raise ==
    /\ failed' = TRUE
    /\ wpc' = "except"

\* ReadPoses with the configured serials resolved again at every tick
ReadPoses_reresolve ==
    /\ wpc = "read"
    /\ ticks' = ticks + 1
    /\ tickLog' = Append(tickLog, ReadEvent)
    /\ \/ /\ Raise
          /\ UNCHANGED <<poses, ch, device_indexes>>
       \/ \E arr \in PoseArrays :
             LET calls == ResolveList(slots, cfg.use_device, TRUE, 1, <<>>) IN
             /\ poses' = arr
             /\ ch' = 0
             /\ device_indexes' = Appended(calls, Len(calls))
             /\ wpc' = IF Len(device_indexes') = 0 THEN "check" ELSE "xform"
             /\ UNCHANGED failed
    /\ UNCHANGED <<y_delta, cur, polls, sentTotal, startHist, shellVars,
                   exitVars, envVars>>

\* line 108: the bulk pose read
ReadPoses ==
    /\ wpc = "read"
    /\ ticks' = ticks + 1
    /\ tickLog' = Append(tickLog, ReadEvent)
    /\ \/ /\ Raise
          /\ UNCHANGED <<poses, ch>>
       \/ \E arr \in PoseArrays :
             /\ poses' = arr
             /\ ch' = 0
             /\ wpc' = IF Len(device_indexes) = 0 THEN "check" ELSE "xform"
             /\ UNCHANGED failed
    /\ UNCHANGED <<device_indexes, y_delta, cur, polls, sentTotal, startHist,
                   shellVars, exitVars, envVars>>

\* Transform with the pose array indexed by the loop counter i, not by the
\* device index j
Transform_byCounter ==
    /\ wpc = "xform"
    /\ LET pose == poses[ch]
           e == get_euler_angle(pose)
       IN  IF e.ok
           THEN /\ cur' = [ok |-> TRUE, pos |-> get_position(pose),
                           rot_x |-> e.rot_x, rot_y |-> e.rot_y, rot_z |-> e.rot_z]
                /\ wpc' = "pos"
                /\ UNCHANGED failed
           ELSE /\ Raise
                /\ UNCHANGED cur
    /\ UNCHANGED <<device_indexes, y_delta, poses, ch, streamHist, startHist,
                   shellVars, exitVars, envVars>>

\* lines 110-113: the pose of the current channel and its transform
Transform ==
    /\ wpc = "xform"
    /\ LET pose == poses[device_indexes[ch + 1]]
           e == get_euler_angle(pose)
       IN  IF e.ok
           THEN /\ cur' = [ok |-> TRUE, pos |-> get_position(pose),
                           rot_x |-> e.rot_x, rot_y |-> e.rot_y, rot_z |-> e.rot_z]
                /\ wpc' = "pos"
                /\ UNCHANGED failed
           ELSE /\ Raise
                /\ UNCHANGED cur
    /\ UNCHANGED <<device_indexes, y_delta, poses, ch, streamHist, startHist,
                   shellVars, exitVars, envVars>>

\* client.send_message(f"/tracking/trackers/{i+1}/<leaf>", args): the packet
\* goes out, or the call raises
send_message(leaf, args, next) ==
    /\ \/ /\ tickLog' = Append(tickLog, SendEvent(ch + 1, leaf, args))
          /\ sentTotal' = sentTotal + 1
          /\ wpc' = next
          /\ UNCHANGED failed
       \/ /\ Raise
          /\ UNCHANGED <<tickLog, sentTotal>>
    /\ UNCHANGED <<device_indexes, y_delta, poses, cur, ticks, polls, startHist,
                   shellVars, exitVars, envVars>>

\* lines 114-121
SendPosition ==
    /\ wpc = "pos"
    /\ send_message("position",
                    <<-cur.pos[1], cur.pos[2] + y_delta, cur.pos[3]>>, "rotx")
    /\ UNCHANGED ch

\* lines 122-127
SendRotationX ==
    /\ wpc = "rotx"
    /\ send_message("rotation/x", <<cur.rot_x>>, "roty")
    /\ UNCHANGED ch

\* SendRotationY with the address of the rotation/z message
SendRotationY_asZ ==
    /\ wpc = "roty"
    /\ send_message("rotation/z", <<cur.rot_y>>, "rotz")
    /\ UNCHANGED ch

\* lines 128-133
SendRotationY ==
    /\ wpc = "roty"
    /\ send_message("rotation/y", <<cur.rot_y>>, "rotz")
    /\ UNCHANGED ch

\* lines 134-140, and the step of the for loop of line 109
SendRotationZ ==
    /\ wpc = "rotz"
    /\ send_message("rotation/z", <<cur.rot_z>>,
                    IF ch + 1 < Len(device_indexes) THEN "xform" ELSE "check")
    /\ ch' = IF wpc' = "except" THEN ch ELSE ch + 1

\* ErrorReport with the flag and wx.Exit() of lines 33-35 ahead of the message
\* box
ErrorReport_exitFirst ==
    /\ wpc = "except"
    /\ SetFlag("worker")
    /\ exitBy' = exitBy \cup {"worker"}
    /\ wpc' = "exiting"
    /\ UNCHANGED <<mainpc, reported, workerLocals, streamHist, startHist,
                   failed, envVars>>

\* lines 31-32 called from the worker's except clauses (87, 97, 142): the
\* traceback goes to the log and to the operator's message box
ErrorReport ==
    /\ wpc = "except"
    /\ reported' = reported + 1
    /\ wpc' = "exiting"
    /\ UNCHANGED <<exitBy, shellVars, workerLocals, streamHist, startHist,
                   failed, envVars>>

\* ErrorExit with the worker back at the head of the loop, not at the return
\* of the except clause
ErrorExit_resume ==
    /\ wpc = "exiting"
    /\ SetFlag("worker")
    /\ exitBy' = exitBy \cup {"worker"}
    /\ wpc' = "check"
    /\ UNCHANGED <<mainpc, reported, workerLocals, streamHist, startHist,
                   failed, envVars>>

\* lines 33-35 on the worker thread: the flag, then wx.Exit()
ErrorExit ==
    /\ wpc = "exiting"
    /\ SetFlag("worker")
    /\ exitBy' = exitBy \cup {"worker"}
    /\ wpc' = "return"
    /\ UNCHANGED <<mainpc, reported, workerLocals, streamHist, startHist,
                   failed, envVars>>

\* lines 30-35 called from the worker's except clauses (87, 97, 142)
ErrorHandling == ErrorReport \/ ErrorExit

\* the return statements of lines 88, 98, 106, 143
WorkerReturn ==
    /\ wpc = "return"
    /\ wpc' = "done"
    /\ UNCHANGED <<workerLocals, streamHist, startHist, failed, shellVars,
                   exitVars, envVars>>

WorkerNext ==
    \/ Startup \/ Calibrate \/ CheckFlag \/ ReadPoses \/ Transform
    \/ SendPosition \/ SendRotationX \/ SendRotationY \/ SendRotationZ
    \/ ErrorHandling \/ WorkerReturn

Next ==
    \/ LoadRuntime \/ MainStart \/ ClickExit \/ JoinReturn \/ MainLoopExit
    \/ RuntimeReassign
    \/ WorkerNext

Spec == Init /\ [][Next]_vars

\* the runs without a reference device in which every configured device counts
InitNoReference ==
    Init /\ cfg.standard_device = NoSerial /\ ~cfg.ignore_not_found_device

\* the start of the program on any file and any command line of the input
\* sets, no device being connected
ParseInit ==
    /\ slots = [i \in 1..NumSlots |-> ""]
    /\ conf \in FileConfs
    /\ argv \in Argvs
    /\ cfg = FileConfig(conf)
    /\ Loaded

\* the main thread up to thread.start()
ParseNext == LoadRuntime \/ MainStart

ParseSpec == ParseInit /\ [][ParseNext]_vars

\* the worker about to transform the pose of its one device, the device of
\* slot 0, in its first tick; the bulk read returned any pose of EulerMatrices
EulerInit ==
    /\ slots = [i \in 1..NumSlots |-> IF i = 1 THEN "A" ELSE ""]
    /\ cfg = [use_device |-> <<"A">>, ignore_not_found_device |-> FALSE,
              standard_device |-> NoSerial, delta |-> 1]
    /\ conf = FileOf(cfg)
    /\ argv = NoArgv
    /\ parsed = parse_arg_and_config(conf, argv)
    /\ thread_terminate = FALSE
    /\ mainpc = "gui"
    /\ wpc = "xform"
    /\ device_indexes = <<0>>
    /\ y_delta = 0
    /\ \E m \in EulerMatrices : poses = [j \in 0..NumSlots |-> m]
    /\ ch = 0
    /\ cur = NoCur
    /\ tickLog = <<ReadEvent>>
    /\ ticks = 1
    /\ polls = 1
    /\ sentTotal = 0
    /\ calibReads = 0
    /\ calibPoses = NoPoses
    /\ resolveLog = <<[serial |-> "A", ignore |-> FALSE, result |-> Found(0)]>>
    /\ startSlots = slots
    /\ startErr = "none"
    /\ failed = FALSE
    /\ reported = 0
    /\ exitBy = {}
    /\ flagWriters = {"main"}
    /\ pollsAtFlag = 0
    /\ reassigns = 0

\* lines 110-113 on that pose
EulerNext == Transform

EulerSpec == EulerInit /\ [][EulerNext]_vars

\* the worker thread keeps being scheduled, and its calls return
FairSpec == InitNoReference /\ [][Next]_vars /\ WF_vars(WorkerNext)

TypeOK ==
    /\ wpc \in {"idle", "startup", "calib"} \cup LoopStates \cup Terminated
    /\ mainpc \in {"load", "main", "gui", "joining", "exited", "dead"}
    /\ thread_terminate \in BOOLEAN
    /\ ticks \in 0..MaxTicks /\ polls \in 0..(MaxTicks + 1)

\* ------------------------------------------------- what the claims speak of
Leaves == <<"position", "rotation/x", "rotation/y", "rotation/z">>

\* operation, channel and endpoint of each event of a tick, in order
Shape(log) == [i \in 1..Len(log) |-> <<log[i].op, log[i].chan, log[i].leaf>>]

\* one bulk read, then the four messages of channel 1, 2, ..., k
ExpectedShape(k) ==
    [i \in 1..(4 * k + 1) |->
        IF i = 1 THEN <<"read", 0, "">>
        ELSE <<"send", ((i - 2) \div 4) + 1, Leaves[((i - 2) % 4) + 1]>>]

IsPrefix(a, b) == Len(a) <= Len(b) /\ \A i \in 1..Len(a) : a[i] = b[i]

\* the worker is past start-up and calibration
Streaming == wpc \in LoopStates \/ ticks > 0

\* the last tick begun ran to its end
TickCompleted == ticks > 0 /\ ~failed /\ wpc \in {"check", "return", "done"}

\* the worker left the loop through the poll of the flag
CleanExit == wpc \in {"return", "done"} /\ ~failed /\ startErr = "none"

\* serial s is met by a scan from slot 0 before any empty slot stops it
Present(table, s) ==
    \E i \in 0..NumSlots :
        /\ SerialAt(table, i) = s
        /\ \A j \in 0..(i - 1) : SerialAt(table, j) # "" /\ SerialAt(table, j) # s

IndexOf(table, s) ==
    CHOOSE i \in 0..NumSlots :
        /\ SerialAt(table, i) = s
        /\ \A j \in 0..(i - 1) : SerialAt(table, j) # "" /\ SerialAt(table, j) # s

\* positions of the configured list whose serial resolves
Kept == {p \in 1..Len(cfg.use_device) : Present(startSlots, cfg.use_device[p])}

\* the slots of the first p configured serials, in configuration order,
\* without the serials that do not resolve
RECURSIVE ResolvedUpTo(_)
ResolvedUpTo(p) ==
    IF p = 0 THEN <<>>
    ELSE IF Present(startSlots, cfg.use_device[p])
         THEN Append(ResolvedUpTo(p - 1), IndexOf(startSlots, cfg.use_device[p]))
         ELSE ResolvedUpTo(p - 1)

ResolvedSpec == ResolvedUpTo(Len(cfg.use_device))

\* C1: a tick that completes without failure consists of exactly one bulk
\* pose read followed by exactly 4*k messages: position, rotation/x,
\* rotation/y, rotation/z of channel 1, then of channel 2, ..., then of
\* channel k; what a tick has done so far is always a prefix of that.
C1_TickShape ==
    /\ IsPrefix(Shape(tickLog), ExpectedShape(Len(device_indexes)))
    /\ TickCompleted => Len(tickLog) = 4 * Len(device_indexes) + 1

C1_Witness ==
    /\ wpc = "check" /\ ticks = 2
    /\ Len(device_indexes) = 2 /\ Len(tickLog) = 9

\* C2: the position message of channel n carries (-x, y + y_delta, z) of the
\* translation column of the pose this tick's bulk read returned at the n-th
\* resolved device index, the resolved list being the configured serials in
\* configuration order with the NotFound entries dropped.
C2_PositionPayload ==
    Streaming =>
        /\ device_indexes = ResolvedSpec
        /\ \A i \in 1..Len(tickLog) :
              tickLog[i].leaf = "position" =>
                 LET m == poses[device_indexes[tickLog[i].chan]] IN
                 tickLog[i].args = <<0 - m[1][4], m[2][4] + y_delta, m[3][4]>>

C2_Witness ==
    /\ device_indexes = <<1, 0>>
    /\ y_delta # 0
    /\ \E i \in 1..Len(tickLog) : tickLog[i].leaf = "position" /\ tickLog[i].chan = 2

\* the events of a tick that are messages
Sends(log) == SelectSeq(log, LAMBDA e : e.op = "send")

\* C3 as stated: with the flag already true, no bulk pose read of the loop
\* returns poses for a tick to stream.
C3_NoTickOnceFlagSet ==
    [][thread_terminate => ~(ticks' = ticks + 1 /\ wpc' = "xform")]_vars

\* C3 amended: if the flag is true when the worker polls it at the head of a
\* tick, the loop exits with no pose read, no message sent, no exception and
\* no error report in that tick or after it.
C3_ExitAtPoll ==
    [][/\ (wpc = "check" /\ thread_terminate) =>
             /\ wpc' \in {"check", "return"}
             /\ ticks' = ticks /\ sentTotal' = sentTotal
             /\ failed' = failed /\ reported' = reported
       /\ CleanExit =>
             /\ wpc' \in {"return", "done"}
             /\ ticks' = ticks /\ sentTotal' = sentTotal
             /\ failed' = failed /\ reported' = reported]_vars

C3_Witness ==
    /\ CleanExit /\ wpc = "done"
    /\ ticks = 1 /\ polls = 2 /\ sentTotal = 8

\* C4: once the flag is set while the loop runs, the worker leaves the loop;
\* the flag is polled exactly once per tick; messages sent while the flag is
\* set all belong to the tick that was under way when it was set, and a tick
\* has at most 4*k messages.
C4_Cancellation ==
    /\ [](Streaming =>
            /\ wpc = "read" => polls = ticks + 1
            /\ wpc \in LoopStates \ {"read"} => polls = ticks
            /\ failed => polls = ticks
            /\ CleanExit => polls = ticks + 1
            /\ Len(Sends(tickLog)) <= 4 * Len(device_indexes))
    /\ [][(thread_terminate /\ sentTotal' # sentTotal) => polls = pollsAtFlag]_vars
    /\ ((thread_terminate /\ wpc \in LoopStates) ~> (wpc \in Terminated))

C4_Witness ==
    /\ CleanExit /\ wpc = "done"
    /\ pollsAtFlag = 2 /\ polls = 3
    /\ Len(device_indexes) = 2 /\ sentTotal = 16

\* C5: a failure inside a tick ends the loop at once: the failing step sends
\* nothing, and from then on no pose is read and no message is sent.
C5_FailureAborts ==
    [][/\ (failed' /\ ~failed) => (wpc' = "except" /\ sentTotal' = sentTotal)
       /\ failed => /\ wpc \in Terminated /\ wpc' \in Terminated
                    /\ failed'
                    /\ ticks' = ticks /\ sentTotal' = sentTotal
                    /\ tickLog' = tickLog]_vars

C5_Witness ==
    /\ failed /\ wpc = "done"
    /\ Len(device_indexes) = 2 /\ ticks = 2 /\ sentTotal = 13

\* C6 as stated: wx.Exit() has been called by the worker or the shell only
\* when the worker has already returned.
C6_ExitOnlyAfterWorker == (exitBy \cap {"worker", "shell"} # {}) => wpc = "done"

\* C6 amended: the Exit menu handler calls wx.Exit() only after the worker has
\* returned; the worker calls wx.Exit() itself as its last act before it
\* returns, and reads no pose and sends no message after that call.
C6_JoinThenExit ==
    [][/\ ("shell" \in exitBy' /\ "shell" \notin exitBy) => (wpc = "done" /\ wpc' = "done")
       /\ ("worker" \in exitBy) =>
             /\ wpc \in {"return", "done"} /\ wpc' \in {"return", "done"}
             /\ ticks' = ticks /\ sentTotal' = sentTotal
             /\ calibReads' = calibReads]_vars

C6_Witness ==
    /\ mainpc = "exited" /\ wpc = "done"
    /\ exitBy = {"worker", "shell"} /\ sentTotal > 0

\* C7: when the resolution of the configured serials ends with 0 or more than
\* 8 devices, start-up fails on the device count and the worker ends without
\* resolving a reference device, reading a pose or sending a message; with 1
\* to 8 devices the device count raises nothing.
C7_DeviceCount ==
    (wpc \notin {"idle", "startup"} /\ startErr \notin {"client", "notfound"}) =>
        LET k == Len(device_indexes) IN
        /\ (k = 0 \/ k > 8) =>
              /\ startErr = "count"
              /\ wpc \in Terminated
              /\ Len(resolveLog) = Len(cfg.use_device)
              /\ calibReads = 0 /\ polls = 0 /\ ticks = 0 /\ sentTotal = 0
              /\ wpc = "done" => reported >= 1
        /\ (k >= 1 /\ k <= 8) => startErr # "count"

C7_Witness ==
    /\ wpc = "done" /\ startErr = "count"
    /\ Len(device_indexes) = 9

\* what a scan for serial s has to return
ResolveSpec(table, s, ignore) ==
    IF Present(table, s) THEN Found(IndexOf(table, s))
    ELSE IF ignore THEN None ELSE Raised

\* C8: every call of get_device_index returns the index of the first slot,
\* counted from 0, that holds the requested serial, provided no empty slot
\* comes before it; otherwise it returns None when ignore is true and raises
\* when ignore is false.
C8_Resolve ==
    \A i \in 1..Len(resolveLog) :
        resolveLog[i].result =
            ResolveSpec(startSlots, resolveLog[i].serial, resolveLog[i].ignore)

C8_Witness ==
    \E i \in 1..Len(resolveLog) :
        /\ resolveLog[i].result = None
        /\ \E j \in 1..NumSlots : startSlots[j] = resolveLog[i].serial

\* C9 as stated: the device streamed on channel n is the one whose serial is
\* the n-th entry of the configured list.
C9_ChannelIsConfigIndex ==
    \A i \in 1..Len(tickLog) :
        tickLog[i].op = "send" =>
            SerialAt(startSlots, device_indexes[tickLog[i].chan])
                = cfg.use_device[tickLog[i].chan]

\* the channel of the configured position p: p less the dropped entries before it
ChannelOf(kept, p) == p - Cardinality({q \in 1..(p - 1) : q \notin kept})

\* C9 amended: the device of configured position p is streamed on channel
\* p minus the number of earlier configured serials dropped as NotFound, and
\* on no channel when its own serial is dropped.
C9_ChannelIsResolvedPosition ==
    Streaming =>
        LET kept == Kept
            chan == [p \in kept |-> ChannelOf(kept, p)]
            slot == [p \in kept |-> IndexOf(startSlots, cfg.use_device[p])]
        IN
        /\ Len(device_indexes) = Cardinality(kept)
        /\ \A p \in kept : device_indexes[chan[p]] = slot[p]
        /\ \A i \in 1..Len(tickLog) :
              tickLog[i].op = "send" =>
                 \E p \in kept :
                    /\ tickLog[i].chan = chan[p]
                    /\ tickLog[i].leaf = "position" =>
                          tickLog[i].args[3] = poses[slot[p]][3][4]

C9_Witness ==
    /\ Kept = {2}
    /\ \E i \in 1..Len(tickLog) : tickLog[i].op = "send" /\ tickLog[i].chan = 1

\* C10: with a reference device configured the offset is delta minus the
\* height of the reference device in the one pose array calibration read;
\* with none configured the offset is 0 and calibration reads no pose.
C10_Offset ==
    /\ calibReads <= 1
    /\ cfg.standard_device = NoSerial => calibReads = 0
    /\ Streaming =>
          IF cfg.standard_device = NoSerial
          THEN y_delta = 0
          ELSE /\ calibReads = 1
               /\ y_delta = cfg.delta
                     - calibPoses[IndexOf(startSlots, cfg.standard_device)][2][4]

C10_Witness ==
    /\ wpc = "check" /\ ticks = 1
    /\ cfg.standard_device = "A" /\ IndexOf(startSlots, "A") = 1
    /\ y_delta = -2

\* a failure of the core: of start-up, of calibration or of a tick
CoreFailure == failed \/ startErr # "none"

\* the error reports of the worker, without the one of a failed runtime load
WorkerReports == reported - (IF "load" \in exitBy THEN 1 ELSE 0)

\* C11: a failure of start-up resolution, of the device count, of calibration
\* or of a tick is reported exactly once, and the worker sets the flag and
\* calls wx.Exit() for it only after the report: nothing is reported without
\* a failure, the failure is unreported and the exit unrequested while the
\* handler has not run, reported once and the exit still unrequested between
\* the message box and the flag, and reported once with the exit requested
\* from then on.
C11_ReportThenExit ==
    /\ ~CoreFailure => WorkerReports = 0 /\ "worker" \notin flagWriters
    /\ CoreFailure =>
          /\ wpc \in Terminated
          /\ wpc = "except" =>
                WorkerReports = 0 /\ "worker" \notin exitBy \cup flagWriters
          /\ wpc = "exiting" =>
                WorkerReports = 1 /\ "worker" \notin exitBy \cup flagWriters
          /\ wpc \in {"return", "done"} =>
                /\ WorkerReports = 1
                /\ "worker" \in exitBy \cap flagWriters
                /\ thread_terminate

C11_Witness ==
    /\ wpc = "done" /\ failed /\ ticks = 2
    /\ reported = 1 /\ "worker" \in exitBy /\ sentTotal > 0

\* the value the command line gives for an option that occurs on it
Override(given) == given[Len(given)]

\* C12: each value parse_arg_and_config returns is the command-line value when
\* the option occurs on the command line and the file value when it does
\* not; a device list given on the command line replaces the list of the
\* file.
C12_OverrideWins ==
    parsed # <<>> =>
        /\ parsed[1] = IF argv.addr # <<>> THEN Override(argv.addr) ELSE conf.addr
        /\ parsed[2] = IF argv.port # <<>> THEN Override(argv.port) ELSE conf.port
        /\ parsed[3] = IF argv.use_device # <<>> THEN argv.use_device
                                                ELSE conf.use_device
        /\ parsed[4] = IF argv.ignore_not_found_device THEN TRUE
                       ELSE conf.ignore_not_found_device
        /\ parsed[5] = IF argv.standard_device # <<>>
                       THEN Override(argv.standard_device)
                       ELSE conf.standard_device
        /\ parsed[6] = IF argv.delta # <<>> THEN Override(argv.delta) ELSE conf.delta
        /\ cfg = ThreadArgs(parsed)

\* C13 as stated: the worker thread never assigns the flag.
C13_WorkerNeverWrites == "worker" \notin flagWriters

\* C13 amended: the flag is assigned by the main thread (module level and the
\* Exit menu handler) and, in the runs where the worker hits an error, by the
\* worker thread too: once, to true, in error_handling after the report;
\* the worker does not read the flag after its own write, it returns. The
\* flag is read by the poll at the head of a tick and nowhere else.
C13_WorkerWritesOnError ==
    [][/\ flagWriters' \subseteq {"load", "main", "shell", "worker"}
       /\ ("worker" \in flagWriters' /\ "worker" \notin flagWriters) =>
             /\ CoreFailure /\ wpc = "exiting" /\ wpc' = "return"
             /\ WorkerReports = 1
       /\ ~CoreFailure' => "worker" \notin flagWriters'
       /\ "worker" \in flagWriters =>
             /\ thread_terminate /\ thread_terminate'
             /\ polls' = polls
             /\ wpc \in {"return", "done"} /\ wpc' \in {"return", "done"}
       /\ polls' # polls => (wpc = "check" /\ polls' = polls + 1)]_vars

C13_Witness ==
    /\ wpc = "done" /\ failed
    /\ flagWriters = {"main", "shell", "worker"}
    /\ pollsAtFlag = 1 /\ polls = 1

\* C14: the configured serials are resolved during start-up only and the
\* reference serial during calibration only, both before the first poll of
\* the loop; the offset is assigned once, by calibration; from the first
\* poll on no step changes the resolved index list or the offset, whether it
\* is a step of a tick or a reassignment of slots by the runtime.
C14_FrozenAfterStartup ==
    [][/\ wpc \notin {"idle", "startup", "calib"} =>
             /\ device_indexes' = device_indexes
             /\ y_delta' = y_delta
             /\ resolveLog' = resolveLog
             /\ calibReads' = calibReads
       /\ device_indexes' # device_indexes => wpc = "startup"
       /\ resolveLog' # resolveLog =>
             (wpc \in {"startup", "calib"} /\ polls = 0 /\ ticks = 0)
       /\ (y_delta' # y_delta \/ calibReads' # calibReads) =>
             /\ wpc = "calib" /\ calibReads = 0
             /\ polls = 0 /\ ticks = 0
       /\ slots' # slots =>
             (device_indexes' = device_indexes /\ y_delta' = y_delta)]_vars

C14_Witness ==
    /\ wpc = "check" /\ ticks = 2 /\ reassigns = 1
    /\ slots # startSlots
    /\ device_indexes = <<1, 0>> /\ y_delta # 0
    /\ SerialAt(slots, 0) # SerialAt(startSlots, 0)

\* C15: the transform of a pose matrix m takes its branch on m[0][2] alone.
\* With m[0][2] = 0, rot_y is 0, rot_x is atan(m[2][1] / m[1][1]) and rot_z
\* is 0, whatever m[0][0], m[0][1], m[1][2] and m[2][2] are; with m[0][2]
\* inside (-1, 1) and not 0, rot_y is asin(m[0][2]), rot_x is
\* atan(-m[1][2] / m[2][2]) and rot_z is atan(-m[0][1] / m[0][0]), whatever
\* m[1][1] and m[2][1] are. A zero divisor of the branch taken, and of no
\* other, makes the transform raise.
C15_BranchOnM02 ==
    [][(wpc = "xform" /\ wpc' # "xform") =>
         LET m == poses[device_indexes[ch + 1]] IN
         /\ M(m, 0, 2) = 0 =>
               IF M(m, 1, 1) = 0
               THEN failed' /\ wpc' = "except" /\ cur' = cur
               ELSE /\ ~failed' /\ wpc' = "pos"
                    /\ cur'.rot_x = atan(Quot(M(m, 2, 1), M(m, 1, 1)))
                    /\ cur'.rot_y = Zero
                    /\ cur'.rot_z = Zero
         /\ (M(m, 0, 2) # 0 /\ Abs(M(m, 0, 2)) < Unit) =>
               IF M(m, 2, 2) = 0 \/ M(m, 0, 0) = 0
               THEN failed' /\ wpc' = "except" /\ cur' = cur
               ELSE /\ ~failed' /\ wpc' = "pos"
                    /\ cur'.rot_x = atan(Quot(-M(m, 1, 2), M(m, 2, 2)))
                    /\ cur'.rot_y = asin(M(m, 0, 2))
                    /\ cur'.rot_y # Zero
                    /\ cur'.rot_z = atan(Quot(-M(m, 0, 1), M(m, 0, 0)))]_vars

C15_Witness ==
    /\ wpc = "pos" /\ cur.ok
    /\ LET m == poses[device_indexes[ch + 1]] IN
       /\ M(m, 0, 2) = 0
       /\ M(m, 0, 0) = 0 /\ M(m, 2, 2) = 0 /\ M(m, 0, 1) = 1 /\ M(m, 1, 2) = 1
       /\ M(m, 1, 1) = -1 /\ M(m, 2, 1) = 1
    /\ cur.rot_z = Zero
    /\ cur.rot_x = [fn |-> "atan", num |-> -1, den |-> 1]

\* C16: the flag is monotonic: no step of the process takes it from true
\* back to false, whoever set it (the Exit menu, error_handling on the worker
\* thread, error_handling after a failed runtime initialisation at load).
C16_FlagMonotonic == [][thread_terminate => thread_terminate']_vars

\* the position of the end sentinel: the first slot whose serial is empty
SentinelPos(table) ==
    CHOOSE i \in 0..NumSlots :
        /\ SerialAt(table, i) = ""
        /\ \A j \in 0..(i - 1) : SerialAt(table, j) # ""

\* C17: every index get_device_index returns, and so every entry of the
\* resolved index list, is the slot of an enumerated device: it lies strictly
\* below the position of the end sentinel, whatever serial was asked for, the
\* empty string included.
C17_IndexBelowSentinel ==
    /\ \A i \in 1..Len(resolveLog) :
          resolveLog[i].result.kind = "index" =>
              resolveLog[i].result.i < SentinelPos(startSlots)
    /\ \A k \in 1..Len(device_indexes) :
          device_indexes[k] < SentinelPos(startSlots)

\* a reference serial is configured and no slot of the runtime holds it
ReferenceMissing ==
    /\ cfg.standard_device # NoSerial
    /\ \A j \in 0..NumSlots : SerialAt(startSlots, j) # cfg.standard_device

\* C18: with a reference serial configured that no slot holds, the worker
\* never enters the loop, whatever the ignore flag is: no pose is read, no
\* message is sent, start-up or the resolution of the reference raises, and
\* the worker returns only after the error has been reported once and the
\* exit requested; when start-up itself succeeded it is the resolution of
\* the reference that raises.
C18_MissingReferenceIsFatal ==
    (ReferenceMissing /\ wpc # "idle") =>
        /\ wpc \in {"startup", "calib"} \cup Terminated
        /\ calibReads = 0 /\ polls = 0 /\ ticks = 0 /\ sentTotal = 0
        /\ wpc \in Terminated =>
              startErr \in {"client", "notfound", "count", "reference"}
        /\ (wpc \in Terminated /\ startErr \notin {"client", "notfound", "count"}) =>
              /\ startErr = "reference"
              /\ resolveLog[Len(resolveLog)] =
                    [serial |-> cfg.standard_device, ignore |-> FALSE,
                     result |-> Raised]
        /\ wpc \in {"return", "done"} =>
              /\ WorkerReports = 1
              /\ "worker" \in exitBy
              /\ thread_terminate

C18_Witness ==
    /\ ReferenceMissing /\ cfg.ignore_not_found_device
    /\ wpc = "done" /\ startErr = "reference"
    /\ cfg.use_device = <<"B", "A">> /\ device_indexes = <<0>>
    /\ reported = 1 /\ sentTotal = 0

====
